---- MODULE Spec2Model ----
(***************************************************************************)
(* A model of leaps-and-bounds: the simulated environment (the run ledger  *)
(* of simulated_environment.py) and the two selectors that consume it,     *)
(* leaps_and_bounds (leapsandbounds.py) and structured_procrastination     *)
(* (structured_procrastination.py).                                        *)
(*                                                                         *)
(* Times are exact numbers here (integers, in a time unit the datasets and *)
(* parameters below are written in); the source computes in Python floats. *)
(* Rational parameters are pairs <<numerator, denominator>>.               *)
(***************************************************************************)
EXTENDS Integers, Sequences, FiniteSets, TLC

VARIABLES
    \* simulated_environment.Environment
    measurement_timeout,     \* self._timeout: the ceiling of the measurements
    results,                 \* self._results: ground truth per configuration
    total_runtime,           \* self._total_runtime
    total_resumed_runtime,   \* self._total_resumed_runtime
    runtime_per_config,      \* self._runtime_per_config
    ran_so_far,              \* self._ran_so_far
    \* what the latest run() call was given and what it returned or raised
    last_call,
    \* history of the accepted run() calls, kept for the accounting claims
    n_calls,
    last_timeout,
    retried_larger,
    requeried_positive,
    \* the arguments of the selector call: epsilon, delta, zeta, k0, k_bar,
    \* theta_multiplier (n is get_num_configs)
    params,
    \* where the running program stands, and what it returned
    pc,
    result,
    \* structured_procrastination's locals
    k, l, q, qq, r, r_sum, heap, current_delta, iter_count, i_star,
    \* leaps_and_bounds' locals theta, k and b, and its list q_hat
    lb_theta, lb_k, lb_b, q_hat,
    \* ebgstop_slave_alg's argument i and its locals j, t, tau, sumq,
    \* sum_q_squared, kk and x; beta_pow is the value of np.power(beta, kk)
    \* for the current kk
    eb_i, eb_j, eb_t, eb_tau, sumq, sum_q_squared, eb_kk, eb_x, beta_pow

env_vars == <<measurement_timeout, results, total_runtime,
              total_resumed_runtime, runtime_per_config, ran_so_far>>
hist_vars == <<n_calls, last_timeout, retried_larger, requeried_positive>>
sp_vars == <<k, l, q, qq, r, r_sum, heap, current_delta, iter_count, i_star>>
lb_vars == <<lb_theta, lb_k, lb_b, q_hat>>
eb_vars == <<eb_i, eb_j, eb_t, eb_tau, sumq, sum_q_squared, eb_kk, eb_x,
             beta_pow>>
vars == <<env_vars, last_call, hist_vars, params, pc, result, sp_vars,
          lb_vars, eb_vars>>

----------------------------------------------------------------------------
(* Bounds of the model. *)

\* The ceiling (self._timeout) of the datasets the ledger driver runs on.
MeasurementTimeout == 3

\* run() is called with instance ids 0..MaxInstanceId.
MaxInstanceId == 2

\* The driver of the ledger makes at most MaxCalls accepted calls.
MaxCalls == 3

\* The datasets the ledger is created over: configurations x instances.
LedgerDatasets ==
    { [results |-> << <<1, 3>>, <<0, 5>> >>, timeout |-> MeasurementTimeout],
      [results |-> << <<2, 2>>, <<4, 1>> >>, timeout |-> MeasurementTimeout] }

----------------------------------------------------------------------------
(* Helpers. *)

Min(a, b) == IF a <= b THEN a ELSE b

Max(a, b) == IF a >= b THEN a ELSE b

\* collections.defaultdict(float): a missing key reads as 0.
Lookup(d, key) == IF key \in DOMAIN d THEN d[key] ELSE 0

\* d[key] = value on a dict.
Store(d, key, value) ==
    IF key \in DOMAIN d THEN [d EXCEPT ![key] = value] ELSE d @@ (key :> value)

----------------------------------------------------------------------------
(* Numbers.  A rational is a pair <<numerator, denominator>> with a        *)
(* positive denominator.  The logarithms of the source (np.log, np.log2,   *)
(* math.log) are computed in fixed point: a fixed-point number is an       *)
(* integer counting units of 2^-FracBits.                                  *)

RatLess(a, b) == a[1] * b[2] < b[1] * a[2]

RatLeq(a, b) == a[1] * b[2] <= b[1] * a[2]

\* The integer a rational with an integral value stands for.
RatInt(a) == a[1] \div a[2]

\* floor(a * b / c) for b, c > 0, formed so that no intermediate value
\* leaves 32 bits.
MulDiv(a, b, c) == (a \div c) * b + ((a % c) * b) \div c

\* The binary digits of floor(sqrt(n)), from the bit `bit` down.
RECURSIVE ISqrtBits(_, _, _)
ISqrtBits(n, bit, acc) ==
    IF bit = 0 THEN acc
    ELSE LET c == acc + bit
         IN IF c <= 46340 /\ c * c <= n
            THEN ISqrtBits(n, bit \div 2, c)
            ELSE ISqrtBits(n, bit \div 2, acc)

\* floor(sqrt(n))
ISqrt(n) == ISqrtBits(n, 2 ^ 15, 0)

FracBits == 14

One == 2 ^ FracBits

\* x * y of two non-negative fixed-point numbers, the product formed in
\* halves so that no intermediate value leaves 32 bits.
FxMul(x, y) ==
    LET h == 2 ^ (FracBits \div 2)
        xh == x \div h
        xl == x % h
        yh == y \div h
        yl == y % h
    IN xh * yh + (xh * yl + xl * yh) \div h + (xl * yl) \div One

\* math.ceil of a fixed-point number
CeilFx(x) == (x + One - 1) \div One

RECURSIVE FloorLog2(_)
FloorLog2(y) == IF y < 2 THEN 0 ELSE 1 + FloorLog2(y \div 2)

\* The fraction bits of log2 of the mantissa m (One <= m < 2 * One), by
\* repeated squaring.
RECURSIVE FracLog2(_, _, _)
FracLog2(m, bit, acc) ==
    IF bit = 0 THEN acc
    ELSE LET sq == (m * m) \div One
         IN IF sq >= 2 * One
            THEN FracLog2(sq \div 2, bit - 1, acc + 2 ^ (bit - 1))
            ELSE FracLog2(sq, bit - 1, acc)

\* np.log2 of a positive integer, in fixed point
Log2Int(y) ==
    LET e == FloorLog2(y)
        m == IF e <= FracBits THEN y * 2 ^ (FracBits - e)
                              ELSE y \div 2 ^ (e - FracBits)
    IN e * One + FracLog2(m, FracBits, 0)

\* np.log of a positive integer, in fixed point: log2(y) * ln 2, with
\* ln 2 = 2731/3940 (a convergent, off by 3e-8).
LnInt(y) == (Log2Int(y) * 2731) \div 3940

\* np.log of a positive rational, in fixed point
LnRat(a) == LnInt(a[1]) - LnInt(a[2])

\* np.log of a positive fixed-point number, in fixed point
LnFx(x) == LnInt(x) - LnInt(One)

----------------------------------------------------------------------------
(* simulated_environment.Environment *)

get_num_configs == Len(results)

instance_count == Len(results[1])

Configs == 0 .. get_num_configs - 1

\* self._results[config_id][instance_id % self._instance_count]
GroundTruth(config_id, instance_id) ==
    results[config_id + 1][(instance_id % instance_count) + 1]

\* Mutant of InvalidTimeout: the ceiling itself is rejected.
InvalidTimeoutInclusive(timeout) == timeout >= measurement_timeout

\* if timeout > self._timeout: raise ValueError
InvalidTimeout(timeout) == timeout > measurement_timeout

\* runtime = min(timeout, self._results[config_id][instance_id % count])
Runtime(config_id, timeout, instance_id) ==
    Min(timeout, GroundTruth(config_id, instance_id))

\* Mutant of RanSoFar: the resumption state read under the reduced instance id.
RanSoFarModulo(config_id, instance_id) ==
    Lookup(ran_so_far[config_id], instance_id % instance_count)

\* self._ran_so_far[config_id][instance_id]
RanSoFar(config_id, instance_id) ==
    Lookup(ran_so_far[config_id], instance_id)

\* Mutants of ResumedRuntime: the whole runtime charged again; the sign reversed.
ResumedRuntimeFull(config_id, runtime, instance_id) == runtime

ResumedRuntimeReversed(config_id, runtime, instance_id) ==
    RanSoFar(config_id, instance_id) - runtime

\* resumed_runtime = runtime - self._ran_so_far[config_id][instance_id]
ResumedRuntime(config_id, runtime, instance_id) ==
    runtime - RanSoFar(config_id, instance_id)

\* Mutant of TimedOut: a run that ends exactly at the timeout counts as completed.
TimedOutStrict(config_id, timeout, instance_id) ==
    timeout < GroundTruth(config_id, instance_id)

\* the first component of the returned tuple
TimedOut(config_id, timeout, instance_id) ==
    timeout <= GroundTruth(config_id, instance_id)

NoCall == [kind |-> "none"]

\* Environment.__init__ on a measurements file, and the reset() it ends with
EnvInit(dataset) ==
    /\ measurement_timeout = dataset.timeout
    /\ results = dataset.results
    /\ total_runtime = 0
    /\ total_resumed_runtime = 0
    /\ runtime_per_config = [c \in Configs |-> 0]
    /\ ran_so_far = [c \in Configs |-> <<>>]
    /\ last_call = NoCall

\* Environment.run(config_id, timeout, instance_id), instance_id given
EnvRun(config_id, timeout, instance_id) ==
    IF InvalidTimeout(timeout)
    THEN /\ last_call' = [kind |-> "raised", config_id |-> config_id,
                          timeout |-> timeout, instance_id |-> instance_id]
         /\ UNCHANGED env_vars
    ELSE LET runtime == Runtime(config_id, timeout, instance_id)
             resumed_runtime == ResumedRuntime(config_id, runtime, instance_id)
         IN /\ total_runtime' = total_runtime + runtime
            /\ runtime_per_config' =
                 [runtime_per_config EXCEPT ![config_id] = @ + resumed_runtime]
            /\ ran_so_far' =
                 [ran_so_far EXCEPT ![config_id] = Store(@, instance_id, runtime)]
            /\ total_resumed_runtime' = total_resumed_runtime + resumed_runtime
            /\ last_call' = [kind |-> "returned", config_id |-> config_id,
                             timeout |-> timeout, instance_id |-> instance_id,
                             timed_out |-> TimedOut(config_id, timeout, instance_id),
                             elapsed |-> runtime]
            /\ UNCHANGED <<measurement_timeout, results>>

----------------------------------------------------------------------------
(* A driver of the ledger: any sequence of run() calls. *)

HistInit ==
    /\ n_calls = 0
    /\ last_timeout = [c \in Configs |-> <<>>]
    /\ retried_larger = FALSE
    /\ requeried_positive = FALSE

\* A local that no assignment has bound yet.
Unbound == <<>>

\* structured_procrastination is not running.
SPIdle ==
    /\ k = Unbound /\ l = Unbound /\ q = Unbound /\ qq = Unbound
    /\ r = Unbound /\ r_sum = Unbound /\ heap = Unbound
    /\ current_delta = Unbound /\ iter_count = 0 /\ i_star = Unbound

\* leaps_and_bounds is not running.
LBIdle ==
    /\ lb_theta = Unbound /\ lb_k = Unbound /\ lb_b = Unbound
    /\ q_hat = Unbound
    /\ eb_i = Unbound /\ eb_j = Unbound /\ eb_t = Unbound /\ eb_tau = Unbound
    /\ sumq = Unbound /\ sum_q_squared = Unbound /\ eb_kk = Unbound
    /\ eb_x = Unbound /\ beta_pow = Unbound

\* No selector runs: the driver calls the ledger directly.
NoSelector ==
    /\ params = Unbound
    /\ result = Unbound
    /\ SPIdle
    /\ LBIdle

Init ==
    /\ \E dataset \in LedgerDatasets : EnvInit(dataset)
    /\ HistInit
    /\ pc = "driver"
    /\ NoSelector

\* One run() call with a timeout the ledger accepts.
RunCall(config_id, timeout, instance_id) ==
    /\ n_calls < MaxCalls
    /\ ~InvalidTimeout(timeout)
    /\ EnvRun(config_id, timeout, instance_id)
    /\ n_calls' = n_calls + 1
    /\ last_timeout' =
         [last_timeout EXCEPT ![config_id] = Store(@, instance_id, timeout)]
    /\ retried_larger' =
         (retried_larger \/
            (/\ instance_id \in DOMAIN last_timeout[config_id]
             /\ timeout > last_timeout[config_id][instance_id]))
    /\ requeried_positive' =
         (requeried_positive \/ RanSoFar(config_id, instance_id) > 0)
    /\ UNCHANGED <<params, pc, result, sp_vars, lb_vars, eb_vars>>

\* One run() call with a timeout above the ceiling.
RunCallRejected(config_id, timeout, instance_id) ==
    /\ n_calls < MaxCalls
    /\ InvalidTimeout(timeout)
    /\ EnvRun(config_id, timeout, instance_id)
    /\ UNCHANGED <<hist_vars, params, pc, result, sp_vars, lb_vars, eb_vars>>

\* The timeouts a driver asks for: non-negative, up to one above the ceiling.
Timeouts == 0 .. measurement_timeout + 1

InstanceIds == 0 .. MaxInstanceId

Next ==
    \/ \E config_id \in Configs, timeout \in Timeouts, instance_id \in InstanceIds :
          RunCall(config_id, timeout, instance_id)
    \/ \E config_id \in Configs, timeout \in Timeouts, instance_id \in InstanceIds :
          RunCallRejected(config_id, timeout, instance_id)

Spec == Init /\ [][Next]_vars

----------------------------------------------------------------------------
(* structured_procrastination.structured_procrastination *)

\* C = 12., the constant for l_i
C == 12

\* if iter_count % 10000 == 0: the period of the recomputation of
\* current_delta.  The source's 10000 is scaled down, so that the loop is
\* followed through several recomputations and to its return.
RecomputePeriod == 100

\* The main loop is followed for at most MaxIterations iterations.
MaxIterations == 600

\* The measurement files and arguments structured_procrastination is run on.
\* Times are in units of k0.  1 + epsilon has a rational square root, so
\* np.sqrt(1 + epsilon) is exact.
SPDatasets ==
    { [results |-> << <<0, 1>>, <<5, 5>> >>, timeout |-> 4],
      [results |-> << <<0, 2>>, <<3, 1>> >>, timeout |-> 3] }

SPParams ==
    { [epsilon |-> <<24, 25>>, delta |-> <<2, 3>>, zeta |-> <<1, 2>>,
       k0 |-> <<1, 1>>, k_bar |-> <<2, 1>>, theta_multiplier |-> <<2, 1>>] }

\* beta = np.log2(k_bar / k0), in fixed point
Beta ==
    Log2Int(params.k_bar[1] * params.k0[2]) - Log2Int(params.k_bar[2] * params.k0[1])

\* C / (epsilon * epsilon), in fixed point
CEps == (C * params.epsilon[2] * params.epsilon[2] * One)
            \div (params.epsilon[1] * params.epsilon[1])

\* np.log(3 * beta * n * kk / zeta), in fixed point
SPLog(kk) ==
    LnInt(3 * get_num_configs * params.zeta[2]) - LnInt(params.zeta[1])
        + LnFx(Beta) + LnInt(kk)

\* int(np.ceil(C / (epsilon * epsilon) * np.log(3 * beta * n / zeta)))
InitialRunListLength == CeilFx(FxMul(CEps, SPLog(1)))

\* int(np.ceil(C / (epsilon * epsilon)
\*             * np.log(3 * beta * n * k[i] * k[i] / zeta)))
SampleTarget(ki) == CeilFx(FxMul(CEps, SPLog(ki * ki)))

\* np.sqrt(1 + epsilon)
SqrtOnePlusEpsilon ==
    <<ISqrt(params.epsilon[2] + params.epsilon[1]), ISqrt(params.epsilon[2])>>

\* Mutants of Escalate: the timeout of a retry is the timeout that failed; it
\* is divided by theta_multiplier.
EscalateSame(theta) == theta

EscalateDown(theta) ==
    (params.theta_multiplier[2] * theta) \div params.theta_multiplier[1]

\* theta_multiplier * theta
Escalate(theta) ==
    (params.theta_multiplier[1] * theta) \div params.theta_multiplier[2]

\* Mutant of EntryLess: of two entries of equal key the larger id is less.
EntryLessLargerId(a, b) ==
    \/ RatLess(<<a[1], a[2]>>, <<b[1], b[2]>>)
    \/ /\ a[1] * b[2] = b[1] * a[2]
       /\ a[3] > b[3]

\* heap entries are <<numerator, denominator, configuration>>: the tuple
\* (r_sum[i] / k[i], i) of the source; tuples compare by key, then by id.
EntryLess(a, b) ==
    \/ RatLess(<<a[1], a[2]>>, <<b[1], b[2]>>)
    \/ /\ a[1] * b[2] = b[1] * a[2]
       /\ a[3] < b[3]

\* The position of the entry heapq.heappop returns: the least one.
HeapMin(h) ==
    CHOOSE x \in 1 .. Len(h) :
        \A y \in 1 .. Len(h) :
            y = x \/ EntryLess(h[x], h[y]) \/ (h[x] = h[y] /\ x < y)

\* The heap after heappop.
HeapRemove(h, x) == [y \in 1 .. Len(h) - 1 |-> IF y < x THEN h[y] ELSE h[y + 1]]

\* np.argmax: the first index of the largest value
ArgMax(f) ==
    CHOOSE i \in DOMAIN f :
        /\ \A j \in DOMAIN f : f[j] <= f[i]
        /\ \A j \in DOMAIN f : f[j] = f[i] => i <= j

\* The lines before the main loop: one priority-queue entry and
\* InitialRunListLength slots at timeout k0 for every configuration.
SPStart ==
    /\ pc = "sp_loop"
    /\ result = Unbound
    /\ k = [i \in Configs |-> 0]
    /\ l = [i \in Configs |-> InitialRunListLength]
    /\ q = [i \in Configs |->
              [ll \in 1 .. InitialRunListLength |-> <<ll - 1, RatInt(params.k0)>>]]
    /\ qq = [i \in Configs |-> 0]
    /\ r = [i \in Configs |-> [ll \in 1 .. InitialRunListLength |-> 0]]
    /\ r_sum = [i \in Configs |-> 0]
    /\ heap = [x \in 1 .. get_num_configs |-> <<0, 1, x - 1>>]
    /\ current_delta = <<1, 1>>
    /\ iter_count = 0
    /\ i_star = Unbound

SPInit ==
    /\ \E dataset \in SPDatasets : EnvInit(dataset)
    /\ HistInit
    /\ params \in SPParams
    /\ SPStart
    /\ LBIdle

\* while current_delta > delta
LoopContinues == RatLess(params.delta, current_delta)

\* Mutant of Recomputes: the recomputation falls one iteration late.
RecomputesLate(count) == count % RecomputePeriod = 1

\* if iter_count % 10000 == 0, on the count of the iteration that just ran
Recomputes(count) == count % RecomputePeriod = 0

\* Mutant of ChargedSum: the slot's earlier charge stays in the sum.
ChargedSumKeepsEarlier(sum, charged, earlier) == sum + charged

\* r_sum[i] += elapsed - r[i][ll], and r_sum[i] += theta - r[i][ll]
ChargedSum(sum, charged, earlier) == sum + charged - earlier

\* Mutant of Grown: the new slots are put behind the pending requests.
GrownAtBack(queue, last, grow, theta) ==
    queue \o [x \in 1 .. grow |-> <<last - grow + x - 1, theta>>]

\* while len(q[i]) < qq[i]: l[i] += 1; q[i].insert(0, (l[i] - 1, theta))
\* the queue after grow rounds of it, l[i] having become last: each new slot
\* goes in front of the one before it.
Grown(queue, last, grow, theta) ==
    [x \in 1 .. grow |-> <<last - x, theta>>] \o queue

\* One iteration of the main loop, from the heappop to the periodic
\* recomputation of current_delta.
SPIterate ==
    /\ pc = "sp_loop"
    /\ LoopContinues
    /\ iter_count < MaxIterations
    /\ LET top == HeapMin(heap)
           i == heap[top][3]
           heap1 == HeapRemove(heap, top)
       IN IF q[i] = <<>>
          THEN \* q[i].pop(0) on an empty list
               /\ pc' = "IndexError"
               /\ iter_count' = iter_count + 1
               /\ heap' = heap1
               /\ UNCHANGED <<env_vars, last_call, k, l, q, qq, r, r_sum,
                              current_delta, i_star>>
          ELSE
          LET ll == Head(q[i])[1]
              theta == Head(q[i])[2]
              fresh == r[i][ll + 1] = 0
              k1 == IF fresh THEN k[i] + 1 ELSE k[i]
              qq1 == IF fresh THEN SampleTarget(k1) ELSE qq[i]
          IN /\ iter_count' = iter_count + 1
             /\ k' = [k EXCEPT ![i] = k1]
             /\ qq' = [qq EXCEPT ![i] = qq1]
             /\ EnvRun(i, theta, ll)
             /\ IF last_call'.kind = "raised"
                THEN /\ pc' = "ValueError"
                     /\ heap' = heap1
                     /\ q' = [q EXCEPT ![i] = Tail(@)]
                     /\ UNCHANGED <<l, r, r_sum, current_delta, i_star>>
                ELSE LET did_timeout == last_call'.timed_out
                         elapsed == last_call'.elapsed
                         charged == IF did_timeout THEN theta ELSE elapsed
                         q1 == IF did_timeout
                               THEN Append(Tail(q[i]), <<ll, Escalate(theta)>>)
                               ELSE Tail(q[i])
                         grow == Max(qq1 - Len(q1), 0)
                         l1 == l[i] + grow
                     IN /\ r_sum' = [r_sum EXCEPT ![i] =
                                           ChargedSum(@, charged, r[i][ll + 1])]
                        /\ r' = [r EXCEPT ![i] =
                                   [@ EXCEPT ![ll + 1] = charged]
                                       \o [x \in 1 .. grow |-> 0]]
                        /\ l' = [l EXCEPT ![i] = l1]
                        /\ q' = [q EXCEPT ![i] = Grown(q1, l1, grow, theta)]
                        /\ heap' = Append(heap1, <<r_sum'[i], k1, i>>)
                        /\ IF Recomputes(iter_count')
                           THEN /\ i_star' = ArgMax(r_sum')
                                /\ current_delta' =
                                     <<SqrtOnePlusEpsilon[1] * qq'[i_star'],
                                       SqrtOnePlusEpsilon[2] * k'[i_star']>>
                           ELSE UNCHANGED <<i_star, current_delta>>
                        /\ pc' = "sp_loop"
    /\ UNCHANGED <<hist_vars, params, result, lb_vars, eb_vars>>

\* The loop test fails: return i_star, current_delta
SPReturn ==
    /\ pc = "sp_loop"
    /\ ~LoopContinues
    /\ pc' = "returned"
    /\ result' = <<i_star, current_delta>>
    /\ UNCHANGED <<env_vars, last_call, hist_vars, params, sp_vars,
                   lb_vars, eb_vars>>

SPNext == SPIterate \/ SPReturn

SpecSP == SPInit /\ [][SPNext]_vars

----------------------------------------------------------------------------
(* leapsandbounds.leaps_and_bounds and leapsandbounds.ebgstop_slave_alg     *)

\* R = 44, the constant used for calculating b
R == 44

\* R2 = 32, the constant used for the stopping condition
R2 == 32

\* The measurement files and arguments leaps_and_bounds is run on.  Times are
\* in units of 8 * k0 / 7, so that theta and tau are whole numbers.
LBRuns ==
    { [results |-> << <<0, 3>>, <<5, 5>> >>, timeout |-> 10,
       args |-> [epsilon |-> <<9, 16>>, delta |-> <<2, 3>>, zeta |-> <<1, 2>>,
                 k0 |-> <<7, 8>>, theta_multiplier |-> <<2, 1>>]],
      [results |-> << <<3, 3>>, <<3, 3>> >>, timeout |-> 10,
       args |-> [epsilon |-> <<24, 25>>, delta |-> <<2, 3>>, zeta |-> <<1, 2>>,
                 k0 |-> <<7, 8>>, theta_multiplier |-> <<2, 1>>]],
      [results |-> << <<2, 2>>, <<5, 5>> >>, timeout |-> 10,
       args |-> [epsilon |-> <<24, 25>>, delta |-> <<2, 3>>, zeta |-> <<1, 2>>,
                 k0 |-> <<7, 8>>, theta_multiplier |-> <<2, 1>>]],
      [results |-> << <<6, 6>>, <<5, 5>> >>, timeout |-> 10,
       args |-> [epsilon |-> <<24, 25>>, delta |-> <<2, 3>>, zeta |-> <<1, 2>>,
                 k0 |-> <<7, 8>>, theta_multiplier |-> <<2, 1>>]] }

\* theta = k0 * 16. / 7
InitialTheta == RatInt(<<16 * params.k0[1], 7 * params.k0[2]>>)

\* np.log(40 * 3 * n * k * (k + 1) / zeta), in fixed point
RoundLog(round) ==
    LnInt(40 * 3 * get_num_configs * round * (round + 1) * params.zeta[2])
        - LnInt(params.zeta[1])

\* b = int(math.ceil(R * math.log(40 * 3 * n * k * (k + 1) / zeta)
\*                   / (delta * epsilon * epsilon)))
RunBudget(round) ==
    CeilFx(MulDiv(RoundLog(round),
                  R * params.delta[2] * params.epsilon[2] * params.epsilon[2],
                  params.delta[1] * params.epsilon[1] * params.epsilon[1]))

\* 4 * theta / (3 * delta)
Tau(theta) == <<4 * theta * params.delta[2], 3 * params.delta[1]>>

\* theta *= theta_multiplier
NextTheta(theta) ==
    (params.theta_multiplier[1] * theta) \div params.theta_multiplier[2]

\* np.power(beta, kk) with beta = 1.10 is a pair <<whole part, fraction in
\* units of 10^-8>>.  np.power(beta, 0):
PowBetaZero == <<1, 0>>

\* np.power(beta, kk + 1) from power = np.power(beta, kk): times 11, by 10.
TimesBeta(power) ==
    LET whole == power[1] * 11 + (power[2] * 11) \div 10 ^ 8
        frac == (power[2] * 11) % 10 ^ 8
    IN <<whole \div 10, ((whole % 10) * 10 ^ 8 + frac) \div 10>>

\* np.floor of a power of beta
FloorPow(power) == power[1]

\* if j + 1 > np.floor(np.power(beta, kk))
KkAdvances(count, power) == count > FloorPow(power)

\* np.log(3 * dk), dk = (2.1 * k ** 1.5 * 2.61238 * (kk ** 1.1) * 10.5844 * n)
\* / zeta, in fixed point
LogThreeDk(round, e) ==
    LnRat(<<63, 10>>) + LnRat(<<261238, 100000>>) + LnRat(<<105844, 10000>>)
        + LnInt(get_num_configs * params.zeta[2]) - LnInt(params.zeta[1])
        + (3 * LnInt(round)) \div 2 + (11 * LnInt(e)) \div 10

\* x = alpha * np.log(3 * dk) for the new kk = e, in fixed point, where
\* alpha = floor(beta^kk) / floor(beta^(kk - 1)) and power = beta^(kk - 1)
NewX(round, e, power) ==
    MulDiv(LogThreeDk(round, e), FloorPow(TimesBeta(power)), FloorPow(power))

\* (j + 1) * np.sqrt(q_var * 2 * x / (j + 1)), in fixed point, where
\* q_var = max((sum_q_squared - q_mean * sumq) / (j + 1), 0): the square root
\* of 2 * (count * s2 - s1 * s1) * x / count, which is formed in units of 2^-10.
SpreadTerm(count, s1, s2, x) ==
    LET v == Max(count * s2 - s1 * s1, 0)
        whole == v \div count
        rest == v % count
        w == (whole * (x \div 128)) * 8 + (whole * (x % 128)) \div 16
                + MulDiv(rest, x, count) \div 16
    IN ISqrt(2 * w) * 2 ^ (FracBits - 5)

\* (j + 1) * confidence, in fixed point
\* confidence = np.sqrt(q_var * 2 * x / (j + 1)) + 3 * tau * x / (j + 1)
Confidence(count, s1, s2, x, tau) == SpreadTerm(count, s1, s2, x) + 3 * tau * x

\* (j + 1) * lower_bound, in fixed point: lower_bound = q_mean - confidence
LowerBound(count, s1, confidence) == s1 * One - confidence

\* if (1 + 3 * epsilon / 7) * lower_bound > theta and q_mean > theta
AboveTheta(count, s1, confidence, theta) ==
    /\ LowerBound(count, s1, confidence) >
          MulDiv(theta * count * One, 7 * params.epsilon[2],
                 7 * params.epsilon[2] + 3 * params.epsilon[1])
    /\ s1 > theta * count

\* r2 = math.ceil(-R2 * np.log(d_prime) / delta),
\* d_prime = zeta / (40 * 3 * n * k * (k + 1) * j * (j + 1))
StopCount(round, jj) ==
    CeilFx(MulDiv(RoundLog(round) + LnInt(jj * (jj + 1)),
                  R2 * params.delta[2], params.delta[1]))

\* if j + 1 >= r2 and confidence <= epsilon / 3 * (q_mean + lower_bound)
Converged(round, count, s1, confidence) ==
    /\ count >= StopCount(round, count - 1)
    /\ confidence <=
          MulDiv(s1 * One + LowerBound(count, s1, confidence),
                 params.epsilon[1], 3 * params.epsilon[2])

\* Mutant of ArgMin: the last index of the least value.
ArgMinLast(f) ==
    CHOOSE a \in 0 .. Len(f) - 1 :
        /\ \A c \in DOMAIN f : RatLeq(f[a + 1], f[c])
        /\ \A c \in DOMAIN f : (~RatLess(f[a + 1], f[c])) => c <= a + 1

\* np.argmin: the first index (from 0) of the least value
ArgMin(f) ==
    CHOOSE a \in 0 .. Len(f) - 1 :
        /\ \A c \in DOMAIN f : RatLeq(f[a + 1], f[c])
        /\ \A c \in DOMAIN f : (~RatLess(f[a + 1], f[c])) => a + 1 <= c

\* Mutant of HasWinner: an estimate equal to theta ends the selection.
HasWinnerInclusive == \E c \in DOMAIN q_hat : RatLeq(q_hat[c], <<lb_theta, 1>>)

\* if np.min(q_hat) < theta
HasWinner == \E c \in DOMAIN q_hat : RatLess(q_hat[c], <<lb_theta, 1>>)

\* Mutant of Budget: twice the time.
BudgetDoubled(b, theta) == 2 * b * theta

\* t = b * theta
Budget(b, theta) == b * theta

\* Mutant of RunTimeout: the cap alone, whatever is left of the budget.
RunTimeoutUnbudgeted(t, tau) == tau

\* timeout=min(t, tau)
RunTimeout(t, tau) == Min(t, tau)

\* Where the for loop over the configurations goes after configuration
\* done - 1: to the next call of the estimator, or past the loop.
AfterEstimate(done) == IF done < get_num_configs THEN "eb_call" ELSE "lb_test"

LBStart ==
    /\ pc = "lb_round"
    /\ result = Unbound
    /\ lb_theta = InitialTheta
    /\ lb_k = 0
    /\ lb_b = Unbound
    /\ q_hat = Unbound
    /\ eb_i = Unbound /\ eb_j = Unbound /\ eb_t = Unbound /\ eb_tau = Unbound
    /\ sumq = Unbound /\ sum_q_squared = Unbound /\ eb_kk = Unbound
    /\ eb_x = Unbound /\ beta_pow = Unbound

LBInit ==
    /\ \E run \in LBRuns :
          /\ EnvInit([results |-> run.results, timeout |-> run.timeout])
          /\ params = run.args
    /\ HistInit
    /\ LBStart
    /\ SPIdle

\* The top of a round: k += 1, b, q_hat = [], and the for loop is entered.
LBRound ==
    /\ pc = "lb_round"
    /\ lb_k' = lb_k + 1
    /\ lb_b' = RunBudget(lb_k + 1)
    /\ q_hat' = <<>>
    /\ eb_i' = 0
    /\ pc' = AfterEstimate(0)
    /\ UNCHANGED <<env_vars, last_call, hist_vars, params, result, sp_vars,
                   lb_theta, eb_j, eb_t, eb_tau, sumq, sum_q_squared, eb_kk,
                   eb_x, beta_pow>>

\* ebgstop_slave_alg is called for configuration i: the lines before its loop.
EBStart ==
    /\ pc = "eb_call"
    /\ eb_t' = Budget(lb_b, lb_theta)
    /\ eb_tau' = RatInt(Tau(lb_theta))
    /\ sumq' = 0
    /\ sum_q_squared' = 0
    /\ eb_kk' = 0
    /\ beta_pow' = PowBetaZero
    /\ eb_x' = Unbound
    /\ eb_j' = 0
    /\ pc' = "eb_loop"
    /\ UNCHANGED <<env_vars, last_call, hist_vars, params, result, sp_vars,
                   lb_vars, eb_i>>

\* ebgstop_slave_alg returns value to leaps_and_bounds, which appends it to
\* q_hat and goes on with the next configuration.
EBReturns(value) ==
    /\ q_hat' = Append(q_hat, value)
    /\ eb_i' = eb_i + 1
    /\ pc' = AfterEstimate(eb_i + 1)

\* One iteration of the estimator's loop: the run, the running sums, and the
\* three tests that return from inside the loop.
EBStep ==
    /\ pc = "eb_loop"
    /\ eb_j < lb_b
    /\ IF eb_t > 0
       THEN EnvRun(eb_i, RunTimeout(eb_t, eb_tau), eb_j)
       ELSE UNCHANGED <<env_vars, last_call>>
    /\ IF eb_t > 0 /\ last_call'.kind = "raised"
       THEN /\ pc' = "ValueError"
            /\ UNCHANGED <<q_hat, eb_vars>>
       ELSE LET elapsed == IF eb_t > 0 THEN last_call'.elapsed ELSE 0
                t1 == eb_t - elapsed
                s1 == sumq + elapsed
                s2 == sum_q_squared + elapsed * elapsed
                count == eb_j + 1
                advances == KkAdvances(count, beta_pow)
                kk1 == IF advances THEN eb_kk + 1 ELSE eb_kk
                x1 == IF advances THEN NewX(lb_k, kk1, beta_pow) ELSE eb_x
                confidence == Confidence(count, s1, s2, x1, eb_tau)
            IN /\ eb_t' = t1
               /\ sumq' = s1
               /\ sum_q_squared' = s2
               /\ UNCHANGED eb_tau
               /\ IF t1 = 0
                  THEN /\ EBReturns(<<lb_theta, 1>>)
                       /\ UNCHANGED <<eb_j, eb_kk, eb_x, beta_pow>>
                  ELSE /\ eb_kk' = kk1
                       /\ beta_pow' = IF advances THEN TimesBeta(beta_pow)
                                                  ELSE beta_pow
                       /\ eb_x' = x1
                       /\ IF eb_j > 0 /\ AboveTheta(count, s1, confidence, lb_theta)
                          THEN EBReturns(<<lb_theta, 1>>) /\ UNCHANGED eb_j
                          ELSE IF eb_j > 0 /\ Converged(lb_k, count, s1, confidence)
                          THEN EBReturns(<<s1, count>>) /\ UNCHANGED eb_j
                          ELSE /\ eb_j' = eb_j + 1
                               /\ pc' = "eb_loop"
                               /\ UNCHANGED <<q_hat, eb_i>>
    /\ UNCHANGED <<hist_vars, params, result, sp_vars, lb_theta, lb_k, lb_b>>

\* The estimator's loop has run b times: return np.mean(q)
EBMean ==
    /\ pc = "eb_loop"
    /\ eb_j = lb_b
    /\ EBReturns(<<sumq, lb_b>>)
    /\ UNCHANGED <<env_vars, last_call, hist_vars, params, result, sp_vars,
                   lb_theta, lb_k, lb_b, eb_j, eb_t, eb_tau, sumq,
                   sum_q_squared, eb_kk, eb_x, beta_pow>>

\* Some estimate is below theta: return (best_config_index,
\* q_hat[best_config_index], 4 * theta / (3 * delta))
LBReturn ==
    /\ pc = "lb_test"
    /\ HasWinner
    /\ pc' = "returned"
    /\ result' = <<ArgMin(q_hat), q_hat[ArgMin(q_hat) + 1], Tau(lb_theta)>>
    /\ UNCHANGED <<env_vars, last_call, hist_vars, params, sp_vars, lb_vars,
                   eb_vars>>

\* No estimate is below theta: theta *= theta_multiplier, and the next round
LBNextRound ==
    /\ pc = "lb_test"
    /\ ~HasWinner
    /\ lb_theta' = NextTheta(lb_theta)
    /\ pc' = "lb_round"
    /\ UNCHANGED <<env_vars, last_call, hist_vars, params, result, sp_vars,
                   lb_k, lb_b, q_hat, eb_vars>>

LBNext ==
    \/ LBRound
    \/ EBStart
    \/ EBStep
    \/ EBMean
    \/ LBReturn
    \/ LBNextRound

SpecLB == LBInit /\ [][LBNext]_vars

----------------------------------------------------------------------------
(* Either selector, run on its measurement files. *)

SelectorInit == LBInit \/ SPInit

SelectorNext == LBNext \/ SPNext

SpecSelectors == SelectorInit /\ [][SelectorNext]_vars

----------------------------------------------------------------------------
(* The run ledger's claims, checked under Spec. *)

ledger_counters == <<total_runtime, total_resumed_runtime,
                     runtime_per_config, ran_so_far>>

\* C1 as stated: total_resumed_runtime <= total_runtime, and the two are equal
\* exactly when no (configuration, instance) pair was queried again with a
\* larger timeout than before.
C1_AsStated ==
    /\ total_resumed_runtime <= total_runtime
    /\ (total_resumed_runtime = total_runtime) <=> ~retried_larger

\* C1 (amended): total_resumed_runtime <= total_runtime always, and the two
\* counters are equal exactly when no (configuration, instance) pair was
\* queried again while its ran_so_far was positive, that is after an earlier
\* query of the pair ran for a positive time, whatever the later timeout.
C1_Accounting ==
    /\ total_resumed_runtime <= total_runtime
    /\ (total_resumed_runtime = total_runtime) <=> ~requeried_positive

\* A pair was queried again with a timeout that is not larger, after it had
\* run for a positive time: the counters differ.
C1_Witness ==
    /\ requeried_positive
    /\ ~retried_larger
    /\ total_resumed_runtime < total_runtime

\* C2: run(c, t1, i) followed, with no other accepted call for (c, i) in
\* between, by run(c, t2, i) with t1 < t2 <= ceiling and ground truth >= t2:
\* the second call adds t2 - t1 to total_resumed_runtime and to the resumed
\* runtime of c, and t2 to total_runtime.
C2_ResumedCharge ==
    [][ LET c == last_call'.config_id
            i == last_call'.instance_id
            t2 == last_call'.timeout
        IN (/\ n_calls' = n_calls + 1
            /\ i \in DOMAIN last_timeout[c]
            /\ last_timeout[c][i] < t2
            /\ t2 <= measurement_timeout
            /\ results[c + 1][(i % Len(results[1])) + 1] >= t2)
           => LET t1 == last_timeout[c][i]
              IN /\ total_resumed_runtime' - total_resumed_runtime = t2 - t1
                 /\ runtime_per_config'[c] - runtime_per_config[c] = t2 - t1
                 /\ total_runtime' - total_runtime = t2 ]_vars

\* The second of two calls was a retry of the first call's pair with a larger
\* timeout that the ground truth reaches.
C2_Witness ==
    /\ n_calls = 2
    /\ retried_larger
    /\ last_call.kind = "returned"
    /\ last_call.timed_out
    /\ total_resumed_runtime < total_runtime

\* C3: a call with a timeout above the ceiling fails and leaves total_runtime,
\* total_resumed_runtime, the per-configuration runtime and every ran_so_far
\* entry as they were; a call with the ceiling as its timeout does not fail.
C3_InvalidTimeout ==
    [][ /\ (last_call'.kind = "raised") => (UNCHANGED ledger_counters)
        /\ (last_call'.kind = "raised") <=>
              (last_call'.timeout > measurement_timeout) ]_vars

\* A call was rejected after the ledger had charged something.
C3_Witness ==
    /\ last_call.kind = "raised"
    /\ total_runtime > 0
    /\ total_resumed_runtime > 0

\* C4: an accepted call returns elapsed = min(timeout, ground truth of
\* (c, i mod m)) <= timeout, and timed_out iff that ground truth >= timeout.
C4_RunOutcome ==
    last_call.kind = "returned" =>
        LET gt == results[last_call.config_id + 1]
                         [(last_call.instance_id % Len(results[1])) + 1]
        IN /\ last_call.elapsed = Min(last_call.timeout, gt)
           /\ last_call.elapsed <= last_call.timeout
           /\ last_call.timed_out <=> (gt >= last_call.timeout)

\* A run on an instance id beyond the pool whose ground truth equals the
\* timeout: it counts as timed out.
C4_Witness ==
    /\ last_call.kind = "returned"
    /\ last_call.instance_id >= Len(results[1])
    /\ last_call.timeout > 0
    /\ last_call.elapsed = last_call.timeout
    /\ results[last_call.config_id + 1]
              [(last_call.instance_id % Len(results[1])) + 1] = last_call.timeout
    /\ last_call.timed_out

\* C5 as stated: over any sequence of run() calls neither counter decreases.
C5_AsStated ==
    [][ /\ total_runtime' >= total_runtime
        /\ total_resumed_runtime' >= total_resumed_runtime ]_vars

\* C5 (amended): total_runtime never decreases; total_resumed_runtime does not
\* decrease across a call whose elapsed time is at least the pair's ran_so_far
\* before the call, and it decreases across a call whose elapsed time is
\* smaller (a pair run again with a smaller timeout).
C5_Monotone ==
    [][ /\ total_runtime' >= total_runtime
        /\ (n_calls' = n_calls + 1) =>
             LET before == Lookup(ran_so_far[last_call'.config_id],
                                  last_call'.instance_id)
             IN /\ (last_call'.elapsed >= before) =>
                     (total_resumed_runtime' >= total_resumed_runtime)
                /\ (last_call'.elapsed < before) =>
                     (total_resumed_runtime' < total_resumed_runtime) ]_vars

\* A pair was run again with a larger timeout and ran longer than before.
C5_Witness ==
    /\ n_calls >= 2
    /\ retried_larger
    /\ requeried_positive
    /\ last_call.kind = "returned"
    /\ ~last_call.timed_out
    /\ total_resumed_runtime > 0
    /\ total_resumed_runtime < total_runtime

----------------------------------------------------------------------------
(* The selectors' claims: C6, C7 and C8 are checked under SpecLB, C9 under  *)
(* SpecSP.                                                                  *)

\* C6 as stated: during a selection run no run() call is made with a timeout
\* above the measurement ceiling, so the invalid-timeout error never occurs.
C6_NoInvalidTimeout ==
    /\ last_call.kind # "raised"
    /\ pc # "ValueError"

\* C7: theta does not decrease from a round to the next; a new round is
\* started only from the test after a round in which every configuration has
\* an estimate and every estimate is >= theta; and leaps_and_bounds returns
\* only when some estimate of the round is strictly below the round's theta.
C7_ThetaRounds ==
    [][ /\ lb_theta' >= lb_theta
        /\ (pc' = "lb_round") =>
              /\ pc = "lb_test"
              /\ Len(q_hat) = Len(results)
              /\ \A c \in DOMAIN q_hat : RatLeq(<<lb_theta, 1>>, q_hat[c])
        /\ (pc' = "returned") =>
              /\ pc = "lb_test"
              /\ lb_theta' = lb_theta
              /\ \E c \in DOMAIN q_hat : RatLess(q_hat[c], <<lb_theta, 1>>) ]_vars

\* leaps_and_bounds returned in its second round, theta having been raised
\* after a first round without an estimate below it.
C7_Witness ==
    /\ pc = "returned"
    /\ lb_k = 2
    /\ lb_theta > RatInt(<<16 * params.k0[1], 7 * params.k0[2]>>)
    /\ RatLess(q_hat[1], q_hat[2])

\* C8: when leaps_and_bounds returns (winner, estimate, tau), the estimator
\* has run for every configuration 0..n-1 of the final round, winner is the
\* lowest index among the configurations of least estimate, estimate is that
\* least estimate and is strictly below the final theta, and tau is
\* 4 * theta / (3 * delta) for the final round's theta, the cap the final
\* round's runs were made under.
C8_ReturnValue ==
    pc = "returned" =>
        LET winner == result[1]
            estimate == result[2]
            tau == result[3]
        IN /\ Len(q_hat) = Len(results)
           /\ eb_i = Len(results)
           /\ winner \in 0 .. Len(results) - 1
           /\ \A c \in DOMAIN q_hat : RatLeq(q_hat[winner + 1], q_hat[c])
           /\ \A c \in DOMAIN q_hat :
                 c < winner + 1 => RatLess(q_hat[winner + 1], q_hat[c])
           /\ estimate = q_hat[winner + 1]
           /\ RatLess(estimate, <<lb_theta, 1>>)
           /\ tau[1] * 3 * params.delta[1] =
                 4 * lb_theta * params.delta[2] * tau[2]
           /\ tau[1] = eb_tau * tau[2]

\* leaps_and_bounds returned from a round in which two configurations share
\* the least estimate.
C8_Witness ==
    /\ pc = "returned"
    /\ Len(q_hat) = 2
    /\ q_hat[1] = q_hat[2]
    /\ result[1] = 0
    /\ lb_k = 2

\* C9: structured_procrastination does not return while current_delta > delta;
\* it returns only right after a periodic recomputation (the iteration count
\* is a positive multiple of the period), and it returns the configuration of
\* the largest r_sum in the state it returns from, with current_delta =
\* sqrt(1 + epsilon) * qq[i_star] / k[i_star] of that state, which is <= delta.
C9_ReturnAfterRecomputation ==
    pc = "returned" =>
        /\ iter_count > 0
        /\ iter_count % RecomputePeriod = 0
        /\ ~RatLess(params.delta, current_delta)
        /\ result = <<i_star, current_delta>>
        /\ result[1] \in 0 .. Len(results) - 1
        /\ \A c \in DOMAIN r_sum : r_sum[c] <= r_sum[result[1]]
        /\ \A c \in DOMAIN r_sum : c < result[1] => r_sum[c] < r_sum[result[1]]
        /\ result[2][1] * ISqrt(params.epsilon[2]) * k[result[1]] =
              ISqrt(params.epsilon[2] + params.epsilon[1]) * qq[result[1]]
                  * result[2][2]
        /\ RatLeq(result[2], params.delta)

\* structured_procrastination returned after more than one recomputation, the
\* earlier ones having left current_delta above delta.
C9_Witness ==
    /\ pc = "returned"
    /\ iter_count > RecomputePeriod
    /\ r_sum[result[1]] > 0
    /\ RatLeq(result[2], params.delta)

----------------------------------------------------------------------------
(* Claims about the selectors' use of the ledger, checked under             *)
(* SpecSelectors.                                                           *)

\* C11: while leaps_and_bounds or structured_procrastination runs
\* (theta_multiplier > 1), no ran_so_far[c][i] decreases from one run() call
\* to the next, and after an accepted call the entry of the call's pair is
\* the elapsed time the call returned.
C11_RanSoFarGrows ==
    [][ /\ \A c \in DOMAIN ran_so_far : \A i \in DOMAIN ran_so_far[c] :
              /\ i \in DOMAIN ran_so_far'[c]
              /\ ran_so_far'[c][i] >= ran_so_far[c][i]
        /\ (ran_so_far' # ran_so_far) =>
              /\ last_call'.kind = "returned"
              /\ ran_so_far'[last_call'.config_id][last_call'.instance_id]
                    = last_call'.elapsed ]_vars

\* In its second round leaps_and_bounds ran instance 0 of a configuration
\* again, under the larger cap, and it ran longer than the first round's cap
\* had let it.
C11_Witness ==
    /\ pc = "eb_loop"
    /\ lb_k = 2
    /\ last_call.kind = "returned"
    /\ last_call.instance_id = 0
    /\ last_call.config_id = eb_i
    /\ last_call.elapsed > RatInt(Tau(InitialTheta))
    /\ ran_so_far[eb_i][0] = last_call.elapsed
    /\ total_resumed_runtime < total_runtime

----------------------------------------------------------------------------
(* Further claims about the run ledger, checked under Spec. *)

\* C13 as stated: a call run(c, t2, i + m) made after run(c, t1, i), t2 > t1,
\* m the size of the instance pool, is charged to total_resumed_runtime only
\* the elapsed time beyond what the pair (c, i) had run.
C13_AsStated ==
    [][ LET c == last_call'.config_id
            i == last_call'.instance_id - Len(results[1])
        IN (/\ n_calls' = n_calls + 1
            /\ i \in DOMAIN last_timeout[c]
            /\ last_timeout[c][i] < last_call'.timeout)
           => total_resumed_runtime' - total_resumed_runtime
                 = last_call'.elapsed - ran_so_far[c][i] ]_vars

\* C13 (amended): instance ids that are congruent modulo the pool size m read
\* the same ground truth but are different pairs of the resumption state,
\* which is kept under the instance id as given: a call run(c, t2, i + m) made
\* after run(c, t1, i), t2 > t1, is charged its elapsed time less what the
\* pair (c, i + m) itself had run, the whole elapsed time if that pair had
\* not run, and leaves the entry of (c, i) as it was.
C13_RawInstancePairs ==
    [][ LET c == last_call'.config_id
            i == last_call'.instance_id - Len(results[1])
        IN (/\ n_calls' = n_calls + 1
            /\ i \in DOMAIN last_timeout[c]
            /\ last_timeout[c][i] < last_call'.timeout)
           => /\ total_resumed_runtime' - total_resumed_runtime
                    = last_call'.elapsed
                        - Lookup(ran_so_far[c], last_call'.instance_id)
              /\ ran_so_far'[c][i] = ran_so_far[c][i]
              /\ last_call'.elapsed
                    = Min(last_call'.timeout, results[c + 1][(i % Len(results[1])) + 1])
      ]_vars

\* Instance 0 of a configuration ran for a positive time, then instance m of
\* it was run for the first time with a larger timeout and was charged its
\* whole elapsed time: nothing has been discounted.
C13_Witness ==
    /\ n_calls = 2
    /\ last_call.kind = "returned"
    /\ last_call.instance_id = Len(results[1])
    /\ DOMAIN ran_so_far[last_call.config_id] = {0, Len(results[1])}
    /\ ran_so_far[last_call.config_id][0] > 0
    /\ last_call.timeout > last_timeout[last_call.config_id][0]
    /\ last_call.elapsed > ran_so_far[last_call.config_id][0]
    /\ total_resumed_runtime = total_runtime

\* The sum of d[key] over the keys given.
RECURSIVE SumOver(_, _)
SumOver(d, keys) ==
    IF keys = {} THEN 0
    ELSE LET key == CHOOSE x \in keys : TRUE
         IN d[key] + SumOver(d, keys \ {key})

\* The sum of the values of a dict.
SumValues(d) == SumOver(d, DOMAIN d)

\* C14: after any sequence of run() calls on a fresh ledger, every
\* runtime_per_config[c] is the sum of ran_so_far[c][i] over the instance ids
\* i, and total_resumed_runtime is the sum of runtime_per_config.
C14_ResumedSums ==
    /\ \A c \in DOMAIN runtime_per_config :
          runtime_per_config[c] = SumValues(ran_so_far[c])
    /\ total_resumed_runtime = SumValues(runtime_per_config)

\* Both configurations have been charged, and a pair has been run again
\* after it had run for a positive time.
C14_Witness ==
    /\ requeried_positive
    /\ n_calls = 3
    /\ \A c \in DOMAIN runtime_per_config : runtime_per_config[c] > 0
    /\ total_resumed_runtime < total_runtime

----------------------------------------------------------------------------
(* Claims about structured_procrastination's bookkeeping, checked under     *)
(* SpecSP.                                                                  *)

\* The key r_sum[c] / k[c] of configuration c, 0 before its first run.
HeapKey(c) == IF k[c] = 0 THEN <<0, 1>> ELSE <<r_sum[c], k[c]>>

\* C15: at the start of every iteration the priority queue holds n entries,
\* one for each configuration, the entry of c keyed by r_sum[c] / k[c] (0
\* before its first run); and the configuration an iteration processes has
\* the least key, the smaller id among equal keys.
C15_PriorityQueue ==
    /\ [](pc = "sp_loop" =>
            /\ Len(heap) = Len(results)
            /\ \A c \in DOMAIN k :
                  \E x \in DOMAIN heap :
                      /\ heap[x][3] = c
                      /\ heap[x][2] > 0
                      /\ heap[x][1] * HeapKey(c)[2] = HeapKey(c)[1] * heap[x][2]
                      /\ \A y \in DOMAIN heap : heap[y][3] = c => y = x)
    /\ [][ (iter_count' = iter_count + 1 /\ pc' # "IndexError") =>
              LET i == last_call'.config_id
              IN \A c \in DOMAIN k :
                    /\ RatLeq(HeapKey(i), HeapKey(c))
                    /\ RatLeq(HeapKey(c), HeapKey(i)) => i <= c ]_vars

\* An iteration is about to start with every configuration run before, the
\* configurations' keys different and positive.
C15_Witness ==
    /\ pc = "sp_loop"
    /\ iter_count > 2
    /\ \A c \in DOMAIN k : k[c] > 0 /\ r_sum[c] > 0
    /\ RatLess(HeapKey(0), HeapKey(1))
    /\ last_call.config_id = 1

\* The slots that q[c] holds requests for.
QueuedSlots(c) == {q[c][x][1] : x \in DOMAIN q[c]}

\* C16: a slot whose run timed out is charged the timeout and is put once
\* more, at the back of its configuration's queue, with theta_multiplier times
\* the timeout; a slot whose run completed is charged the elapsed time and is
\* not in the queue afterwards; no slot is in a queue twice; and a slot that
\* is run again is run with theta_multiplier times the timeout it was charged,
\* which is more than before (theta_multiplier > 1).
C16_Requeue ==
    /\ [](pc = "sp_loop" =>
            \A c \in DOMAIN q : Cardinality(QueuedSlots(c)) = Len(q[c]))
    /\ [][ (iter_count' = iter_count + 1 /\ pc' = "sp_loop") =>
              LET i == last_call'.config_id
                  ll == last_call'.instance_id
                  theta == last_call'.timeout
                  mult == params.theta_multiplier
              IN /\ Head(q[i]) = <<ll, theta>>
                 /\ ll \in DOMAIN ran_so_far[i] =>
                       /\ theta * mult[2] = mult[1] * r[i][ll + 1]
                       /\ theta > r[i][ll + 1]
                 /\ last_call'.timed_out =>
                       /\ r'[i][ll + 1] = theta
                       /\ q'[i][Len(q'[i])][1] = ll
                       /\ q'[i][Len(q'[i])][2] * mult[2] = mult[1] * theta
                 /\ ~last_call'.timed_out =>
                       /\ r'[i][ll + 1] = last_call'.elapsed
                       /\ \A x \in DOMAIN q'[i] : q'[i][x][1] # ll ]_vars

\* A slot that had timed out at k0 was run again at theta_multiplier * k0,
\* timed out again, and is at the back of the queue with the timeout raised
\* once more.
C16_Witness ==
    /\ pc = "sp_loop"
    /\ last_call.kind = "returned"
    /\ last_call.timed_out
    /\ last_call.timeout * params.k0[2] * params.theta_multiplier[2]
          = params.k0[1] * params.theta_multiplier[1]
    /\ r[last_call.config_id][last_call.instance_id + 1] = last_call.timeout
    /\ q[last_call.config_id][Len(q[last_call.config_id])][1]
          = last_call.instance_id
    /\ q[last_call.config_id][Len(q[last_call.config_id])][2]
          > last_call.timeout

\* The sum of f[lo], ..., f[hi], formed by halves.
RECURSIVE SumRange(_, _, _)
SumRange(f, lo, hi) ==
    IF lo > hi THEN 0
    ELSE IF lo = hi THEN f[lo]
    ELSE LET mid == (lo + hi) \div 2
         IN SumRange(f, lo, mid) + SumRange(f, mid + 1, hi)

\* C17: after every iteration and for every configuration c, r_sum[c] is the
\* sum of r[c] over the allocated slots, l[c] is the number of allocated
\* slots len(r[c]), and every slot that q[c] holds is an allocated one, below
\* l[c].
C17_SlotBookkeeping ==
    pc = "sp_loop" =>
        \A c \in DOMAIN r :
            /\ r_sum[c] = SumRange(r[c], 1, Len(r[c]))
            /\ l[c] = Len(r[c])
            /\ \A x \in DOMAIN q[c] : q[c][x][1] >= 0 /\ q[c][x][1] < l[c]

\* After some iterations a configuration's run list has grown, one of its
\* slots has been charged a second time, and its slots carry different
\* charges.
C17_Witness ==
    /\ pc = "sp_loop"
    /\ total_resumed_runtime < total_runtime
    /\ \E c \in DOMAIN r :
          /\ l[c] > Len(q[c])
          /\ l[c] > InitialRunListLength
          /\ r_sum[c] > 0
          /\ \E x \in DOMAIN r[c] : r[c][x] = 0
          /\ \E x \in DOMAIN r[c] : r[c][x] > 1

\* C18: after the growth step of an iteration the processed configuration's
\* queue holds at least qq[i] requests, the newly allocated slots, of cost
\* zero, ahead of all the requests that were pending; and at the start of
\* every iteration every configuration's queue is non-empty, so the pop of a
\* request never fails.
C18_Growth ==
    /\ [](/\ pc # "IndexError"
          /\ pc = "sp_loop" => \A c \in DOMAIN q : q[c] # <<>>)
    /\ [][ (iter_count' = iter_count + 1 /\ pc' = "sp_loop") =>
              LET i == last_call'.config_id
                  grow == l'[i] - l[i]
                  kept == Len(q[i]) - 1
              IN /\ Len(q'[i]) >= qq'[i]
                 /\ grow >= 0
                 /\ Len(q'[i]) >= grow + kept
                 /\ \A x \in 1 .. grow :
                       /\ q'[i][x][1] >= l[i]
                       /\ r'[i][q'[i][x][1] + 1] = 0
                 /\ \A x \in 1 .. kept : q'[i][grow + x] = q[i][x + 1]
                 /\ \A x \in grow + 1 .. Len(q'[i]) : q'[i][x][1] < l[i]
          ]_vars

\* An iteration has just grown the configuration's run list by several
\* slots, which stand at the front of its queue, the newest first, ahead of
\* requests for older slots.
C18_Witness ==
    /\ pc = "sp_loop"
    /\ last_call.kind = "returned"
    /\ LET i == last_call.config_id
       IN /\ Len(q[i]) = qq[i]
          /\ Head(q[i])[1] = l[i] - 1
          /\ q[i][2][1] = l[i] - 2
          /\ r[i][l[i]] = 0
          /\ q[i][Len(q[i])][1] < l[i] - 2
          /\ l[i] > Len(q[i])

----------------------------------------------------------------------------
(* Claims about the sequential estimator, checked under SpecLB. *)

\* C19: within one call of ebgstop_slave_alg the runs go to the instance
\* indices 0, 1, 2, ... in that order, one run each; every timeout asked for
\* is min(remaining budget, tau) with tau = 4 * theta / (3 * delta); the
\* remaining budget is never negative and the elapsed time charged in the
\* call never exceeds b * theta; and the call returns theta at once when the
\* remaining budget reaches zero.
C19_EstimatorBudget ==
    /\ [](pc = "eb_loop" =>
            /\ eb_t >= 0
            /\ eb_j < lb_b => eb_t > 0
            /\ sumq + eb_t = lb_b * lb_theta
            /\ sumq <= lb_b * lb_theta)
    /\ [][ (pc = "eb_call") => (pc' = "eb_loop" /\ eb_j' = 0) ]_vars
    /\ [][ (pc = "eb_loop" /\ eb_j < lb_b) =>
              /\ last_call'.kind \in {"returned", "raised"}
              /\ last_call'.config_id = eb_i
              /\ last_call'.instance_id = eb_j
              /\ last_call'.timeout * 3 * params.delta[1] =
                    Min(eb_t * 3 * params.delta[1],
                        4 * lb_theta * params.delta[2])
              /\ (pc' = "eb_loop") => (eb_j' = eb_j + 1)
              /\ (last_call'.kind = "returned") =>
                    /\ eb_t' = eb_t - last_call'.elapsed
                    /\ eb_t' >= 0
                    /\ sumq' = sumq + last_call'.elapsed
                    /\ sumq' <= lb_b * lb_theta
                    /\ (eb_t' = 0) =>
                          /\ pc' # "eb_loop"
                          /\ q_hat' = Append(q_hat, <<lb_theta, 1>>) ]_vars

\* A call of the estimator used up its budget: its last run was given what
\* was left of the budget, less than tau, as its timeout, ran that long, and
\* the call returned theta.
C19_Witness ==
    /\ pc \in {"eb_call", "lb_test"}
    /\ Len(q_hat) > 0
    /\ eb_t = 0
    /\ sumq = lb_b * lb_theta
    /\ last_call.kind = "returned"
    /\ last_call.timeout < eb_tau
    /\ last_call.elapsed = last_call.timeout
    /\ last_call.instance_id = eb_j
    /\ q_hat[Len(q_hat)] = <<lb_theta, 1>>

\* Some estimate of the current round is the mean over all b runs.
RoundHasFullMean == \E c \in DOMAIN q_hat : q_hat[c][2] = lb_b

\* C20: when the estimator makes all b runs without returning from inside
\* its loop, the sample mean it returns is strictly below theta; no run of
\* that round is rejected and the round's test returns instead of starting
\* another round. The rest of the round is finite: every step after such a
\* mean either makes one more of the b runs, or completes one more of the n
\* estimates, or is the test that returns the winner.
C20_FullMeanWins ==
    /\ [][ (pc = "eb_loop" /\ eb_j = lb_b) =>
              /\ q_hat' = Append(q_hat, <<sumq, lb_b>>)
              /\ RatLess(<<sumq, lb_b>>, <<lb_theta, 1>>)
              /\ eb_t > 0 ]_vars
    /\ [][ (pc = "lb_test" /\ RoundHasFullMean) => (pc' = "returned") ]_vars
    /\ [](pc = "ValueError" => ~RoundHasFullMean)
    /\ [](RoundHasFullMean =>
              /\ pc \in {"eb_call", "eb_loop", "lb_test", "returned"}
              /\ Len(q_hat) <= get_num_configs
              /\ (pc = "eb_loop") => (eb_j <= lb_b))
    /\ [][ RoundHasFullMean =>
              /\ lb_k' = lb_k
              /\ \/ pc = "eb_loop" /\ pc' = "eb_loop" /\ eb_j' = eb_j + 1
                    /\ q_hat' = q_hat
                 \/ pc = "eb_loop" /\ pc' \in {"eb_call", "lb_test"}
                    /\ Len(q_hat') = Len(q_hat) + 1
                 \/ pc = "eb_call" /\ pc' = "eb_loop" /\ q_hat' = q_hat
                 \/ pc = "lb_test" /\ pc' = "returned"
                    /\ result'[1] \in Configs
                    /\ RatLess(result'[2], <<lb_theta, 1>>) ]_vars

\* leaps_and_bounds returned a configuration whose estimate is the mean over
\* all b runs of its last round, none of which reached the cap tau.
C20_Witness ==
    /\ pc = "returned"
    /\ q_hat[result[1] + 1][2] = lb_b
    /\ q_hat[result[1] + 1][1] > 0
    /\ runtime_per_config[result[1]] < lb_b * eb_tau
    /\ RatLess(result[2], <<lb_theta, 1>>)

====
